---- MODULE Spec2Model ----
(***************************************************************************)
(* OriginSync: a watcher that reconciles NodePort services of a cluster    *)
(* with origin pools of a remote control plane.                            *)
(*                                                                         *)
(* The repository holds two builds of package main.  The definitions named *)
(* as in the source model src/originsync.go; the definitions carrying the  *)
(* suffix _p0 model the build of src/unnamed/part_000, where it differs.   *)
(*                                                                         *)
(* A string is the sequence of its ASCII code points, so that a byte, a    *)
(* rune and a character are the same thing.                                *)
(***************************************************************************)
EXTENDS Integers, Sequences, FiniteSets, TLC

VARIABLES
    tasks,      \* the goroutines the handlers have started, in the order of their events
    remote,     \* the remote resource store: canonical name -> pool or NoPool
    cluster,    \* the services of the cluster: key -> service object or NoService
    nameIn,     \* formatServiceName: the service name drawn
    nameOut,    \* formatServiceName: its result
    podsIn,     \* getNodeIPsForService: the pod list drawn
    failIn,     \* getNodeIPsForService: the pods whose node lookup fails
    ipsOut,     \* getNodeIPsForService: the addresses returned
    applied,    \* whether the function under test has run on the drawn input
    env,        \* the environment variables the process was started with
    phase,      \* main: "init", then "watching" or, after log.Fatal, "fatal"
    qualified,  \* the services of the cluster that passed a handler's filter at add or update
    listErrIn,  \* getNodeIPsForService: whether the pod listing fails
    errOut      \* getNodeIPsForService: whether it returned an error

\* the process: its configuration and how far main has come
process == <<env, phase>>

\* the functions run on drawn inputs
harness == <<nameIn, nameOut, podsIn, failIn, listErrIn, ipsOut, errOut, applied>>

vars == <<tasks, remote, cluster, qualified, process, harness>>

----------------------------------------------------------------------------
(* Bounds of the model *)

MaxLen == 4         \* longest service name drawn for formatServiceName
MaxPods == 3        \* longest pod list drawn for getNodeIPsForService
MaxTasks == 2
MaxSeqTasks == 3       \* goroutines the handlers start in one behaviour

----------------------------------------------------------------------------
(* Characters: ASCII code points *)

Dot == 46
Hyphen == 45

\* unicode.IsLetter
IsLetter(c) == c \in 65..90 \/ c \in 97..122

\* unicode.IsDigit
IsDigit(c) == c \in 48..57

\* unicode.ToLower, as strings.ToLower applies it to every character
ToLowerRune(c) == IF c \in 65..90 THEN c + 32 ELSE c

----------------------------------------------------------------------------
(* formatServiceName *)

\* strings.ReplaceAll(serviceName, ".", "-")
ReplaceDots(s) == [k \in 1..Len(s) |-> IF s[k] = Dot THEN Hyphen ELSE s[k]]

\* strings.ToLower(formattedName)
ToLower(s) == [k \in 1..Len(s) |-> ToLowerRune(s[k])]

\* for len(formattedName) > 0 && !unicode.IsLetter(rune(formattedName[0]))
RECURSIVE StripLeading(_)
StripLeading(s) ==
    IF Len(s) > 0 /\ ~IsLetter(Head(s))
    THEN StripLeading(Tail(s))
    ELSE s

\* one round of `for i, ch := range formattedName`: ch is the k-th character
\* and i = k - 1; the hyphen is cut only when it stands at the last index
FilterStep(s, k, temp) ==
    LET ch == s[k]
        kept == IF IsLetter(ch) \/ IsDigit(ch) \/ ch = Hyphen
                THEN Append(temp, ch)
                ELSE temp
    IN IF k - 1 = Len(s) - 1 /\ ch = Hyphen
       THEN SubSeq(kept, 1, Len(kept) - 1)
       ELSE kept

RECURSIVE FilterLoop(_, _, _)
FilterLoop(s, k, temp) ==
    IF k > Len(s) THEN temp ELSE FilterLoop(s, k + 1, FilterStep(s, k, temp))

formatServiceName(serviceName) ==
    FilterLoop(StripLeading(ToLower(ReplaceDots(serviceName))), 1, <<>>)

----------------------------------------------------------------------------
(* The cluster: nodes with their address lists (node.Status.Addresses) *)

Nodes == {"n1", "n2", "n3"}

\* n1 has one internal address, n2 an external and two internal ones, n3 none
NodeAddresses(n) ==
    CASE n = "n1" -> << [Type |-> "InternalIP", Address |-> "10.0.0.1"] >>
      [] n = "n2" -> << [Type |-> "ExternalIP", Address |-> "203.0.113.2"],
                        [Type |-> "InternalIP", Address |-> "10.0.0.2"],
                        [Type |-> "InternalIP", Address |-> "10.0.1.2"] >>
      [] OTHER    -> << [Type |-> "Hostname",   Address |-> "n3.local"],
                        [Type |-> "ExternalIP", Address |-> "203.0.113.3"] >>

\* pods.Items as the list of pod.Spec.NodeName, up to MaxPods pods
PodLists == UNION {[1..n -> Nodes] : n \in 0..MaxPods}

----------------------------------------------------------------------------
(* getNodeIPsForService *)

\* a scan that keeps the last address of type NodeInternalIP (no break)
FirstInternal_last(addrs) ==
    LET hits == {j \in 1..Len(addrs) : addrs[j].Type = "InternalIP"}
    IN IF hits = {} THEN 0 ELSE CHOOSE j \in hits : \A h \in hits : j >= h

\* for _, addr := range node.Status.Addresses: the index of the first address
\* of type NodeInternalIP, 0 when there is none
FirstInternal(addrs) ==
    LET hits == {j \in 1..Len(addrs) : addrs[j].Type = "InternalIP"}
    IN IF hits = {} THEN 0 ELSE CHOOSE j \in hits : \A h \in hits : j <= h

\* a round that does not look the node up in nodeNames
PodStep_nodedup(pods, k, fail, st) ==
    LET addrs == NodeAddresses(pods[k])
        j == FirstInternal(addrs)
    IN IF k \in fail \/ j = 0 THEN st
       ELSE [nodeNames |-> st.nodeNames \cup {pods[k]},
             nodeIPs   |-> Append(st.nodeIPs, addrs[j].Address)]

\* one round of `for _, pod := range pods.Items` on the k-th pod; st holds
\* nodeNames and nodeIPs; fail is the set of pods whose Nodes().Get fails
PodStep(pods, k, fail, st) ==
    LET n == pods[k]
        addrs == NodeAddresses(n)
        j == FirstInternal(addrs)
    IN IF n \in st.nodeNames THEN st
       ELSE IF k \in fail THEN st
       ELSE IF j = 0 THEN st
       ELSE [nodeNames |-> st.nodeNames \cup {n},
             nodeIPs   |-> Append(st.nodeIPs, addrs[j].Address)]

RECURSIVE PodLoop(_, _, _, _)
PodLoop(pods, k, fail, st) ==
    IF k > Len(pods) THEN st ELSE PodLoop(pods, k + 1, fail, PodStep(pods, k, fail, st))

\* a resolver that gives up at the first node lookup that fails
getNodeIPsForService_abort(listErr, pods, fail) ==
    IF listErr \/ fail \cap (1..Len(pods)) # {}
    THEN [err |-> TRUE, nodeIPs |-> <<>>]
    ELSE [err |-> FALSE,
          nodeIPs |-> PodLoop(pods, 1, fail, [nodeNames |-> {}, nodeIPs |-> <<>>]).nodeIPs]

\* listErr: Pods(...).List returned an error
getNodeIPsForService(listErr, pods, fail) ==
    IF listErr
    THEN [err |-> TRUE, nodeIPs |-> <<>>]
    ELSE [err |-> FALSE,
          nodeIPs |-> PodLoop(pods, 1, fail, [nodeNames |-> {}, nodeIPs |-> <<>>]).nodeIPs]

\* every answer the cluster can give to one resolution
Resolutions ==
    {getNodeIPsForService(TRUE, <<>>, {})} \cup
    {getNodeIPsForService(FALSE, pods, fail) :
        pods \in PodLists, fail \in SUBSET (1..MaxPods)}


----------------------------------------------------------------------------
(* Services of the cluster, as the informer hands them to the handlers *)

Web == <<119, 101, 98>>      \* "web"
Db == <<100, 98>>            \* "db"

Names == {Web, Db}

Svc(ns, name, type, ports) ==
    [Namespace |-> ns, Name |-> name, Type |-> type, Ports |-> ports]

\* The service objects the informer delivers.  Type is service.Spec.Type;
\* Ports is service.Spec.Ports as the list of the entries' NodePort, where 0
\* is "not assigned".  default/web comes in every shape, prod/web shares its
\* name, default/db shares nothing with it.
Services ==
    {Svc("default", Web, "NodePort",  <<30080, 30081>>),
     Svc("default", Web, "NodePort",  <<>>),
     Svc("default", Web, "NodePort",  <<0>>),
     Svc("default", Web, "ClusterIP", <<0>>),
     Svc("prod",    Web, "NodePort",  <<30082>>),
     Svc("default", Db,  "NodePort",  <<30090>>)}

KeyOf(svc) == [Namespace |-> svc.Namespace, Name |-> svc.Name]

\* the services of the cluster: namespace and name
ServiceKeys == {KeyOf(svc) : svc \in Services}

----------------------------------------------------------------------------
(* Requests to the remote API and the remote resource store *)

StatusOK == 200
StatusNotFound == 404
StatusConflict == 409
StatusServerError == 500
TransportError == 0         \* client.Do returned an error: there is no status

NoBody == [kind |-> "none", Name |-> <<>>, Port |-> 0, OriginServers |-> <<>>]

NoReq == [method |-> "NONE", url |-> <<>>, body |-> NoBody]

\* the path below /api/config/namespaces/{xc_namespace}
CollectionURL == <<"origin_pools">>
ItemURL(name) == <<"origin_pools", name>>

NoPool == [present |-> FALSE, Port |-> 0, OriginServers |-> <<>>]

\* the names a request of this model can address
RemoteNames == Names \cup {formatServiceName(n) : n \in Names}

Present(store, name) == name \in DOMAIN store /\ store[name].present

\* The remote API: the status it answers to a request it serves, and the store
\* afterwards.  A create of a present name and an update or delete of an absent
\* one are refused and change nothing.
RemoteStatus(store, req) ==
    CASE req.method = "GET" /\ Len(req.url) = 2 ->
            IF Present(store, req.url[2]) THEN StatusOK ELSE StatusNotFound
      [] req.method = "POST" /\ Len(req.url) = 1 ->
            IF Present(store, req.body.Name) THEN StatusConflict ELSE StatusOK
      [] req.method = "PUT" /\ Len(req.url) = 2 ->
            IF Present(store, req.url[2]) THEN StatusOK ELSE StatusNotFound
      [] req.method = "DELETE" /\ Len(req.url) = 2 ->
            IF Present(store, req.url[2]) THEN StatusOK ELSE StatusNotFound
      [] OTHER -> StatusNotFound

RemoteStore(store, req) ==
    IF RemoteStatus(store, req) # StatusOK THEN store
    ELSE CASE req.method = "POST" ->
                [store EXCEPT ![req.body.Name] =
                    [present |-> TRUE, Port |-> req.body.Port,
                     OriginServers |-> req.body.OriginServers]]
           [] req.method = "PUT" ->
                [store EXCEPT ![req.url[2]] =
                    [present |-> TRUE, Port |-> req.body.Port,
                     OriginServers |-> req.body.OriginServers]]
           [] req.method = "DELETE" ->
                [store EXCEPT ![req.url[2]] = NoPool]
           [] OTHER -> store

\* what one client.Do can come back with: the API served the request, the API
\* failed with a server error, or the transport failed (timeout included)
Outcomes == {"served", "error", "transport"}

\* resp.StatusCode of a request sent with the store as it is now
StatusOf(store, req, outcome) ==
    CASE outcome = "served" -> RemoteStatus(store, req)
      [] outcome = "error"  -> StatusServerError
      [] OTHER              -> TransportError

StoreAfter(store, req, outcome) ==
    IF outcome = "served" THEN RemoteStore(store, req) ELSE store

\* the remote API may also never answer a request
Answers == Outcomes \cup {"silent"}

\* the status recorded for a request that is never answered
NoAnswer == -1

\* http.Client.Timeout in seconds; zero means no timeout
CheckTimeout == 10          \* checkOriginPoolExists: &http.Client{Timeout: 10 * time.Second}
DeleteTimeout == 10         \* deleteOriginPool: &http.Client{Timeout: 10 * time.Second}
DefaultClientTimeout == 0   \* createOriginPool, updateOriginPool: http.DefaultClient

\* client.Do never returns: no answer comes and no timeout ends the wait; with
\* a timeout the unanswered call returns an error, as a transport failure does
Blocks(outcome, timeout) == outcome = "silent" /\ timeout = 0

----------------------------------------------------------------------------
(* Process configuration: the package variables read from the environment *)

\* every variable set; XC_SITEINTERFACE as given
FullEnv(siteinterface) ==
    [k8s_namespace    |-> "",
     xc_namespace     |-> "ns-1",
     xc_token         |-> "token",
     xc_sitename      |-> "site-1",
     xc_siteinterface |-> siteinterface,
     api_domain       |-> "https://api"]

\* the variables main tests
CheckedByMain == {"xc_namespace", "xc_token", "api_domain", "xc_sitename"}

\* The environments the process is started with: complete with either site
\* interface, complete but for XC_SITEINTERFACE, and with one of the variables
\* main tests unset.  os.Getenv gives "" for an unset variable.
Environments ==
    {FullEnv(i) : i \in {"Inside", "Outside", ""}} \cup
    {[FullEnv("Inside") EXCEPT ![v] = ""] : v \in CheckedByMain}

xc_sitename == env.xc_sitename

xc_siteinterface == env.xc_siteinterface

\* main: log.Fatal unless the four variables are set, then getClientSet, which
\* is fatal too when the in-cluster configuration or the clientset fails, then
\* watchServices
main ==
    /\ phase = "init"
    /\ IF \E v \in CheckedByMain : env[v] = ""
       THEN phase' = "fatal"
       ELSE \E clientset \in BOOLEAN :
                phase' = IF clientset THEN "watching" ELSE "fatal"
    /\ UNCHANGED <<tasks, remote, cluster, qualified, env, harness>>

----------------------------------------------------------------------------
(* The goroutines: one task per event that passes the handler's filter *)

NoService == [Namespace |-> "", Name |-> <<>>, Type |-> "", Ports |-> <<>>]

NoResolution == [called |-> FALSE, err |-> FALSE, nodeIPs |-> <<>>]

\* A task: the event and the service object it was started for, the point it
\* has reached, what checkOriginPoolExists and getNodeIPsForService returned,
\* the request it is about to send, and the calls it has made so far.
NewTask(event, svc, pc, req) ==
    [event |-> event, svc |-> svc, pc |-> pc, exists |-> "unknown",
     resolved |-> NoResolution, req |-> req, calls |-> <<>>]

Call(req, status) ==
    [method |-> req.method, url |-> req.url, body |-> req.body, status |-> status]

\* originServers with an entry for the first address only
OriginServersOf_first(nodeIPs) ==
    [k \in 1..(IF Len(nodeIPs) > 1 THEN 1 ELSE Len(nodeIPs)) |->
        [IP |-> nodeIPs[k], Site |-> xc_sitename,
         InsideNetwork |-> TRUE, OutsideNetwork |-> FALSE]]

\* originServers: one entry per address, in the order of nodeIPs
OriginServersOf(nodeIPs) ==
    [k \in 1..Len(nodeIPs) |->
        [IP |-> nodeIPs[k], Site |-> xc_sitename,
         InsideNetwork |-> TRUE, OutsideNetwork |-> FALSE]]

PoolBody(name, port, nodeIPs) ==
    [kind |-> "pool", Name |-> name, Port |-> port,
     OriginServers |-> OriginServersOf(nodeIPs)]

\* the request checkOriginPoolExists sends
CheckRequest(svc) ==
    [method |-> "GET", url |-> ItemURL(formatServiceName(svc.Name)), body |-> NoBody]

\* a checkOriginPoolExists that takes every status but 200 for "not found"
checkOriginPoolExists_lenient(status) ==
    IF status = StatusOK THEN "found" ELSE "notfound"

\* a checkOriginPoolExists that returns true for 404 and false for 200
checkOriginPoolExists_inverted(status) ==
    CASE status = StatusOK       -> "notfound"
      [] status = StatusNotFound -> "found"
      [] OTHER                   -> "error"

\* checkOriginPoolExists: (exists, err) from the status of the GET
checkOriginPoolExists(status) ==
    CASE status = StatusOK       -> "found"
      [] status = StatusNotFound -> "notfound"
      [] OTHER                   -> "error"

\* a node port test that only asks for a declared port
HasNodePort_declared(svc) == Len(svc.Ports) > 0

\* the node port test of createOriginPool and updateOriginPool
HasNodePort(svc) == Len(svc.Ports) > 0 /\ svc.Ports[1] # 0

\* the request createOriginPool builds
CreateRequest(svc, nodeIPs) ==
    [method |-> "POST", url |-> CollectionURL,
     body |-> PoolBody(formatServiceName(svc.Name), svc.Ports[1], nodeIPs)]

\* the request updateOriginPool builds
UpdateRequest(svc, nodeIPs) ==
    [method |-> "PUT", url |-> ItemURL(formatServiceName(svc.Name)),
     body |-> PoolBody(formatServiceName(svc.Name), svc.Ports[1], nodeIPs)]

\* the request deleteOriginPool builds
DeleteRequest(svc) ==
    [method |-> "DELETE", url |-> ItemURL(formatServiceName(svc.Name)),
     body |-> [kind |-> "delete", Name |-> formatServiceName(svc.Name),
               Port |-> 0, OriginServers |-> <<>>]]

\* a path that goes on whatever the resolution returned
Proceeds_unchecked(svc, r) == HasNodePort(svc)

\* whether the create/update path goes on to send after the resolution r
Proceeds(svc, r) == ~r.err /\ Len(r.nodeIPs) # 0 /\ HasNodePort(svc)

----------------------------------------------------------------------------
(* Event handlers of watchServices *)

\* a handler that runs f(...) itself: the next event waits until it is over
Go_waiting(event, svc, pc, req) ==
    /\ Len(tasks) < MaxTasks
    /\ \A h \in 1..Len(tasks) : tasks[h].pc = "done"
    /\ tasks' = Append(tasks, NewTask(event, svc, pc, req))

\* `go f(...)`: the handler starts a goroutine and returns
Go(event, svc, pc, req) ==
    /\ Len(tasks) < MaxTasks
    /\ tasks' = Append(tasks, NewTask(event, svc, pc, req))

\* an AddFunc that starts manageOriginPool for a service of any type
AddFunc_unfiltered(svc) ==
    /\ phase = "watching"
    /\ cluster[KeyOf(svc)] = NoService
    /\ cluster' = [cluster EXCEPT ![KeyOf(svc)] = svc]
    /\ Go("add", svc, "check", NoReq)
    /\ qualified' = qualified \cup {KeyOf(svc)}
    /\ UNCHANGED <<remote, process, harness>>

\* AddFunc: a service appears in the cluster
AddFunc(svc) ==
    /\ phase = "watching"
    /\ cluster[KeyOf(svc)] = NoService
    /\ cluster' = [cluster EXCEPT ![KeyOf(svc)] = svc]
    /\ IF svc.Type = "NodePort"
       THEN Go("add", svc, "check", NoReq) /\ qualified' = qualified \cup {KeyOf(svc)}
       ELSE UNCHANGED <<tasks, qualified>>
    /\ UNCHANGED <<remote, process, harness>>

\* UpdateFunc: a service of the cluster is changed; newObj is svc
UpdateFunc(svc) ==
    /\ phase = "watching"
    /\ cluster[KeyOf(svc)] # NoService
    /\ cluster' = [cluster EXCEPT ![KeyOf(svc)] = svc]
    /\ IF svc.Type = "NodePort"
       THEN Go("update", svc, "check", NoReq) /\ qualified' = qualified \cup {KeyOf(svc)}
       ELSE UNCHANGED <<tasks, qualified>>
    /\ UNCHANGED <<remote, process, harness>>

\* DeleteFunc: a service leaves the cluster; obj is its last state
DeleteFunc(key) ==
    /\ phase = "watching"
    /\ cluster[key] # NoService
    /\ cluster' = [cluster EXCEPT ![key] = NoService]
    /\ qualified' = qualified \ {key}
    /\ IF cluster[key].Type = "NodePort"
       THEN Go("delete", cluster[key], "delete", DeleteRequest(cluster[key]))
       ELSE UNCHANGED tasks
    /\ UNCHANGED <<remote, process, harness>>

----------------------------------------------------------------------------
(* Steps of the goroutines *)

\* a manageOriginPool that ends the process when the existence check fails
\* (log.Fatalf in place of log.Printf)
manageOriginPool_fatal(i) ==
    /\ tasks[i].pc = "check"
    /\ \E outcome \in Answers :
         LET req    == CheckRequest(tasks[i].svc)
             status == StatusOf(remote, req, outcome)
             exists == checkOriginPoolExists(status)
         IN /\ IF Blocks(outcome, CheckTimeout)
               THEN tasks' = [tasks EXCEPT
                       ![i].calls = Append(@, Call(req, NoAnswer)),
                       ![i].pc    = "blocked"]
               ELSE tasks' = [tasks EXCEPT
                       ![i].exists = exists,
                       ![i].calls  = Append(@, Call(req, status)),
                       ![i].pc     = CASE exists = "found"    -> "update"
                                       [] exists = "notfound" -> "create"
                                       [] OTHER               -> "done"]
            /\ phase' = IF ~Blocks(outcome, CheckTimeout) /\ exists = "error"
                        THEN "fatal" ELSE phase
    /\ UNCHANGED <<remote, cluster, qualified, env, harness>>

\* manageOriginPool: the existence check and the choice of the path
manageOriginPool(i) ==
    /\ tasks[i].pc = "check"
    /\ \E outcome \in Answers :
         LET req    == CheckRequest(tasks[i].svc)
             status == StatusOf(remote, req, outcome)
             exists == checkOriginPoolExists(status)
         IN IF Blocks(outcome, CheckTimeout)
            THEN tasks' = [tasks EXCEPT
                    ![i].calls = Append(@, Call(req, NoAnswer)),
                    ![i].pc    = "blocked"]
            ELSE tasks' = [tasks EXCEPT
                    ![i].exists = exists,
                    ![i].calls  = Append(@, Call(req, status)),
                    ![i].pc     = CASE exists = "found"    -> "update"
                                    [] exists = "notfound" -> "create"
                                    [] OTHER               -> "done"]
    /\ UNCHANGED <<remote, cluster, qualified, process, harness>>

\* createOriginPool up to the request: resolution, the two skips, the payload
createOriginPool(i) ==
    /\ tasks[i].pc = "create"
    /\ \E r \in Resolutions :
         tasks' = [tasks EXCEPT
            ![i].resolved = [called |-> TRUE, err |-> r.err, nodeIPs |-> r.nodeIPs],
            ![i].req = IF Proceeds(tasks[i].svc, r)
                       THEN CreateRequest(tasks[i].svc, r.nodeIPs) ELSE NoReq,
            ![i].pc  = IF Proceeds(tasks[i].svc, r) THEN "post" ELSE "done"]
    /\ UNCHANGED <<remote, cluster, qualified, process, harness>>

\* updateOriginPool up to the request
updateOriginPool(i) ==
    /\ tasks[i].pc = "update"
    /\ \E r \in Resolutions :
         tasks' = [tasks EXCEPT
            ![i].resolved = [called |-> TRUE, err |-> r.err, nodeIPs |-> r.nodeIPs],
            ![i].req = IF Proceeds(tasks[i].svc, r)
                       THEN UpdateRequest(tasks[i].svc, r.nodeIPs) ELSE NoReq,
            ![i].pc  = IF Proceeds(tasks[i].svc, r) THEN "put" ELSE "done"]
    /\ UNCHANGED <<remote, cluster, qualified, process, harness>>

\* a Do that sends the request again when it failed
Do_retry(i, timeout) ==
    \E outcome \in Answers :
        LET status == StatusOf(remote, tasks[i].req, outcome)
        IN IF Blocks(outcome, timeout)
           THEN /\ tasks' = [tasks EXCEPT
                       ![i].calls = Append(@, Call(tasks[i].req, NoAnswer)),
                       ![i].pc    = "blocked"]
                /\ remote' = remote
           ELSE /\ tasks' = [tasks EXCEPT
                       ![i].calls = Append(@, Call(tasks[i].req, status)),
                       ![i].pc    = IF status = StatusOK THEN "done" ELSE @]
                /\ remote' = StoreAfter(remote, tasks[i].req, outcome)

\* client.Do(req) of a client with the given timeout: task i sends the request
\* it has built; the remote store changes when the API serves it; the task is
\* over when Do returns, and blocked for good when it never does
Do(i, timeout) ==
    \E outcome \in Answers :
        IF Blocks(outcome, timeout)
        THEN /\ tasks' = [tasks EXCEPT
                    ![i].calls = Append(@, Call(tasks[i].req, NoAnswer)),
                    ![i].pc    = "blocked"]
             /\ remote' = remote
        ELSE /\ tasks' = [tasks EXCEPT
                    ![i].calls = Append(@, Call(tasks[i].req,
                                                StatusOf(remote, tasks[i].req, outcome))),
                    ![i].pc    = "done"]
             /\ remote' = StoreAfter(remote, tasks[i].req, outcome)

\* a create that is sent only while the pool is still absent, as if the
\* existence check and the create were one step
createSend_atomic(i) ==
    /\ tasks[i].pc = "post"
    /\ ~Present(remote, tasks[i].req.body.Name)
    /\ Do(i, DefaultClientTimeout)
    /\ UNCHANGED <<cluster, qualified, process, harness>>

\* createOriginPool from http.DefaultClient.Do(req) on
createSend(i) ==
    /\ tasks[i].pc = "post"
    /\ Do(i, DefaultClientTimeout)
    /\ UNCHANGED <<cluster, qualified, process, harness>>

\* updateOriginPool from http.DefaultClient.Do(req) on
updateSend(i) ==
    /\ tasks[i].pc = "put"
    /\ Do(i, DefaultClientTimeout)
    /\ UNCHANGED <<cluster, qualified, process, harness>>

\* a deleteOriginPool that waits for the earlier goroutines of its service
deleteOriginPool_serialized(i) ==
    /\ tasks[i].pc = "delete"
    /\ \A h \in 1..(i - 1) :
          tasks[h].svc.Name = tasks[i].svc.Name => tasks[h].pc = "done"
    /\ Do(i, DeleteTimeout)
    /\ UNCHANGED <<cluster, qualified, process, harness>>

\* deleteOriginPool: the request was built when the goroutine started
deleteOriginPool(i) ==
    /\ tasks[i].pc = "delete"
    /\ Do(i, DeleteTimeout)
    /\ UNCHANGED <<cluster, qualified, process, harness>>

----------------------------------------------------------------------------
(* The program *)

\* The remote store outlives the process: at the start it is empty, or holds
\* the pool an earlier run created for "web".
InitRemotes ==
    {[n \in RemoteNames |-> NoPool],
     [n \in RemoteNames |->
        IF n = formatServiceName(Web)
        THEN [present |-> TRUE, Port |-> 30080,
              OriginServers |->
                  << [IP |-> "10.0.0.1", Site |-> "site-1",
                      InsideNetwork |-> TRUE, OutsideNetwork |-> FALSE] >>]
        ELSE NoPool]}

\* the harness variables at rest
HarnessIdle ==
    /\ nameIn = <<>>
    /\ nameOut = <<>>
    /\ podsIn = <<>>
    /\ failIn = {}
    /\ listErrIn = FALSE
    /\ ipsOut = <<>>
    /\ errOut = FALSE
    /\ applied = FALSE

Init ==
    /\ env \in Environments
    /\ phase = "init"
    /\ tasks = <<>>
    /\ remote \in InitRemotes
    /\ cluster = [k \in ServiceKeys |-> NoService]
    /\ qualified = {}
    /\ HarnessIdle

Next ==
    \/ main
    \/ \E svc \in Services : AddFunc(svc)
    \/ \E svc \in Services : UpdateFunc(svc)
    \/ \E key \in ServiceKeys : DeleteFunc(key)
    \/ \E i \in 1..Len(tasks) : manageOriginPool(i)
    \/ \E i \in 1..Len(tasks) : createOriginPool(i)
    \/ \E i \in 1..Len(tasks) : updateOriginPool(i)
    \/ \E i \in 1..Len(tasks) : createSend(i)
    \/ \E i \in 1..Len(tasks) : updateSend(i)
    \/ \E i \in 1..Len(tasks) : deleteOriginPool(i)

Spec == Init /\ [][Next]_vars


----------------------------------------------------------------------------
(* The build of src/unnamed/part_000, where it differs *)

\* Port: 3000 of both payloads
FixedPort_p0 == 3000

\* originServers of part_000: both network sides are set on every entry
OriginServersOf_p0(nodeIPs) ==
    [k \in 1..Len(nodeIPs) |->
        [IP |-> nodeIPs[k], Site |-> xc_sitename,
         InsideNetwork |-> TRUE, OutsideNetwork |-> TRUE]]

\* the request createOriginPool of part_000 builds
CreateRequest_p0(svc, nodeIPs) ==
    [method |-> "POST", url |-> CollectionURL,
     body |-> [kind |-> "pool", Name |-> formatServiceName(svc.Name),
               Port |-> FixedPort_p0,
               OriginServers |-> OriginServersOf_p0(nodeIPs)]]

\* the request updateOriginPool of part_000 builds: the collection URL, and
\* service.Name as it is
UpdateRequest_p0(svc, nodeIPs) ==
    [method |-> "PUT", url |-> CollectionURL,
     body |-> [kind |-> "pool", Name |-> svc.Name,
               Port |-> FixedPort_p0,
               OriginServers |-> OriginServersOf_p0(nodeIPs)]]

\* createOriginPool of part_000 up to the request: only a failed resolution stops it
createOriginPool_p0(i) ==
    /\ tasks[i].pc = "create"
    /\ \E r \in Resolutions :
         tasks' = [tasks EXCEPT
            ![i].resolved = [called |-> TRUE, err |-> r.err, nodeIPs |-> r.nodeIPs],
            ![i].req = IF r.err THEN NoReq
                       ELSE CreateRequest_p0(tasks[i].svc, r.nodeIPs),
            ![i].pc  = IF r.err THEN "done" ELSE "post"]
    /\ UNCHANGED <<remote, cluster, qualified, process, harness>>

\* updateOriginPool of part_000 up to the request
updateOriginPool_p0(i) ==
    /\ tasks[i].pc = "update"
    /\ \E r \in Resolutions :
         tasks' = [tasks EXCEPT
            ![i].resolved = [called |-> TRUE, err |-> r.err, nodeIPs |-> r.nodeIPs],
            ![i].req = IF r.err THEN NoReq
                       ELSE UpdateRequest_p0(tasks[i].svc, r.nodeIPs),
            ![i].pc  = IF r.err THEN "done" ELSE "put"]
    /\ UNCHANGED <<remote, cluster, qualified, process, harness>>

\* createOriginPool and updateOriginPool of part_000 send with
\* &http.Client{Timeout: 10 * time.Second}
ClientTimeout_p0 == 10

\* createOriginPool of part_000 from client.Do(req) on
createSend_p0(i) ==
    /\ tasks[i].pc = "post"
    /\ Do(i, ClientTimeout_p0)
    /\ UNCHANGED <<cluster, qualified, process, harness>>

\* updateOriginPool of part_000 from client.Do(req) on
updateSend_p0(i) ==
    /\ tasks[i].pc = "put"
    /\ Do(i, ClientTimeout_p0)
    /\ UNCHANGED <<cluster, qualified, process, harness>>

\* DeleteFunc with deleteOriginPool of part_000, whose body is empty: the
\* goroutine starts and returns
DeleteFunc_p0(key) ==
    /\ phase = "watching"
    /\ cluster[key] # NoService
    /\ cluster' = [cluster EXCEPT ![key] = NoService]
    /\ qualified' = qualified \ {key}
    /\ IF cluster[key].Type = "NodePort"
       THEN Go("delete", cluster[key], "done", NoReq)
       ELSE UNCHANGED tasks
    /\ UNCHANGED <<remote, process, harness>>

NextP0 ==
    \/ main
    \/ \E svc \in Services : AddFunc(svc)
    \/ \E svc \in Services : UpdateFunc(svc)
    \/ \E key \in ServiceKeys : DeleteFunc_p0(key)
    \/ \E i \in 1..Len(tasks) : manageOriginPool(i)
    \/ \E i \in 1..Len(tasks) : createOriginPool_p0(i)
    \/ \E i \in 1..Len(tasks) : updateOriginPool_p0(i)
    \/ \E i \in 1..Len(tasks) : createSend_p0(i)
    \/ \E i \in 1..Len(tasks) : updateSend_p0(i)

SpecP0 == Init /\ [][NextP0]_vars

----------------------------------------------------------------------------
(* formatServiceName and getNodeIPsForService on drawn inputs *)

\* '.', '-', '_', '1', 'A', 'a', 'b'
Alphabet == {46, 45, 95, 49, 65, 97, 98}

Strings == UNION {[1..n -> Alphabet] : n \in 0..MaxLen}

\* a service name is drawn, then canonicalized
InitName ==
    /\ env = FullEnv("Inside")
    /\ phase = "init"
    /\ tasks = <<>>
    /\ remote = [n \in RemoteNames |-> NoPool]
    /\ cluster = [k \in ServiceKeys |-> NoService]
    /\ qualified = {}
    /\ nameIn \in Strings
    /\ nameOut = <<>>
    /\ podsIn = <<>>
    /\ failIn = {}
    /\ listErrIn = FALSE
    /\ ipsOut = <<>>
    /\ errOut = FALSE
    /\ applied = FALSE

Canonicalize ==
    /\ ~applied
    /\ nameOut' = formatServiceName(nameIn)
    /\ applied' = TRUE
    /\ UNCHANGED <<tasks, remote, cluster, qualified, process,
                   nameIn, podsIn, failIn, listErrIn, ipsOut, errOut>>

SpecName == InitName /\ [][Canonicalize]_vars

\* the pods of a service and the failing node lookups are drawn, then resolved
InitResolve ==
    /\ env = FullEnv("Inside")
    /\ phase = "init"
    /\ tasks = <<>>
    /\ remote = [n \in RemoteNames |-> NoPool]
    /\ cluster = [k \in ServiceKeys |-> NoService]
    /\ qualified = {}
    /\ nameIn = <<>>
    /\ nameOut = <<>>
    /\ podsIn \in PodLists
    /\ failIn \in SUBSET (1..Len(podsIn))
    /\ listErrIn \in BOOLEAN
    /\ ipsOut = <<>>
    /\ errOut = FALSE
    /\ applied = FALSE

Resolve ==
    /\ ~applied
    /\ ipsOut' = getNodeIPsForService(listErrIn, podsIn, failIn).nodeIPs
    /\ errOut' = getNodeIPsForService(listErrIn, podsIn, failIn).err
    /\ applied' = TRUE
    /\ UNCHANGED <<tasks, remote, cluster, qualified, process,
                   nameIn, nameOut, podsIn, failIn, listErrIn>>

SpecResolve == InitResolve /\ [][Resolve]_vars

----------------------------------------------------------------------------
(* Vocabulary of the properties *)

ManageTasks == {i \in 1..Len(tasks) : tasks[i].event \in {"add", "update"}}

DeleteTasks == {i \in 1..Len(tasks) : tasks[i].event = "delete"}

\* the create and update requests task i has sent
Submitted(i) ==
    {k \in 1..Len(tasks[i].calls) : tasks[i].calls[k].method \in {"POST", "PUT"}}

CallsBy(i, method) ==
    {k \in 1..Len(tasks[i].calls) : tasks[i].calls[k].method = method}

CanonicalName(i) == formatServiceName(tasks[i].svc.Name)

----------------------------------------------------------------------------
(* C1: the existence check decides the route *)

\* C1: in every add/update reconciliation the status of the existence check
\* decides the route: after "not found" (404) only the create path runs (no PUT
\* is ever sent or prepared), after "found" (200) only the update path runs (no
\* POST), and after any other status or a transport error the reconciliation
\* is over with the GET as its only call.
C1_CheckDecidesRoute ==
    \A i \in ManageTasks :
        LET t == tasks[i]
        IN IF t.pc = "check" THEN t.calls = <<>>
           ELSE /\ Len(t.calls) >= 1
                /\ t.calls[1].method = "GET"
                /\ CallsBy(i, "GET") = {1}
                /\ t.calls[1].status = StatusNotFound =>
                      /\ CallsBy(i, "PUT") = {}
                      /\ t.pc \in {"create", "post", "blocked", "done"}
                      /\ t.req.method \in {"NONE", "POST"}
                /\ t.calls[1].status = StatusOK =>
                      /\ CallsBy(i, "POST") = {}
                      /\ t.pc \in {"update", "put", "blocked", "done"}
                      /\ t.req.method \in {"NONE", "PUT"}
                /\ t.calls[1].status \notin {StatusOK, StatusNotFound} =>
                      /\ t.pc = "done"
                      /\ Len(t.calls) = 1
                      /\ ~t.resolved.called

\* one reconciliation went 404 -> POST, another 200 -> PUT, both sent
C1_Witness ==
    /\ \E i \in ManageTasks :
          /\ tasks[i].pc = "done"
          /\ tasks[i].calls[1].status = StatusNotFound
          /\ CallsBy(i, "POST") # {}
    /\ \E i \in ManageTasks :
          /\ tasks[i].pc = "done"
          /\ tasks[i].calls[1].status = StatusOK
          /\ CallsBy(i, "PUT") # {}

----------------------------------------------------------------------------
(* C2: the delete path *)

\* C2: a delete event for a qualifying service issues exactly one remote call,
\* a DELETE addressed at the canonicalized service name, and nothing before it:
\* until the DELETE is sent the task has made no call, and when the task is
\* over its calls are that one DELETE.
C2_DeleteIsOneCall ==
    \A i \in DeleteTasks :
        LET t == tasks[i]
        IN /\ t.pc # "done" => t.calls = <<>>
           /\ t.pc = "done" =>
                /\ Len(t.calls) = 1
                /\ t.calls[1].method = "DELETE"
                /\ t.calls[1].url = ItemURL(CanonicalName(i))
                /\ t.calls[1].body.Name = CanonicalName(i)

----------------------------------------------------------------------------
(* C3: zero endpoints *)

\* a reconciliation whose resolution succeeded with zero endpoints for a
\* service with a valid node port
ZeroEndpoints(i) ==
    /\ tasks[i].resolved.called
    /\ ~tasks[i].resolved.err
    /\ tasks[i].resolved.nodeIPs = <<>>
    /\ HasNodePort(tasks[i].svc)

\* C3: when resolution succeeds with zero endpoints for a service
\* with a valid node port, the reconciliation still submits its create or
\* update request, with an empty backend list: it is about to send it or has
\* sent it.
C3_EmptyListSubmitted ==
    \A i \in ManageTasks :
        ZeroEndpoints(i) =>
            \/ /\ tasks[i].pc \in {"post", "put"}
               /\ tasks[i].req.body.OriginServers = <<>>
            \/ \E k \in Submitted(i) : tasks[i].calls[k].body.OriginServers = <<>>

----------------------------------------------------------------------------
(* C4: no node port *)

\* C4: for an add/update event whose service has no declared port, or whose
\* first port has no node port assigned, no create and no update request is
\* sent or prepared, whatever the existence check and the resolution returned.
C4_NoPortNoRequest ==
    \A i \in ManageTasks :
        (tasks[i].svc.Ports = <<>> \/ Head(tasks[i].svc.Ports) = 0) =>
            /\ Submitted(i) = {}
            /\ tasks[i].pc \notin {"post", "put"}
            /\ tasks[i].req = NoReq

\* both shapes met the test with endpoints resolved: a service without ports
\* on one path and a service with an unassigned node port on the other
C4_Witness ==
    /\ \E i \in ManageTasks :
          /\ tasks[i].svc.Ports = <<>>
          /\ tasks[i].resolved.called /\ tasks[i].resolved.nodeIPs # <<>>
          /\ tasks[i].pc = "done"
    /\ \E i \in ManageTasks :
          /\ tasks[i].svc.Ports = <<0>>
          /\ tasks[i].resolved.called /\ tasks[i].resolved.nodeIPs # <<>>
          /\ tasks[i].pc = "done"


----------------------------------------------------------------------------
(* C5: no ordering between the reconciliations of one service *)

\* the next step of task i, whichever it is
StepOf(i) ==
    \/ manageOriginPool(i)
    \/ createOriginPool(i)
    \/ updateOriginPool(i)
    \/ createSend(i)
    \/ updateSend(i)

\* task i reconciles an update event and task j the later delete event of the
\* same service
UpdateThenDelete(i, j) ==
    /\ i < j
    /\ tasks[i].event = "update"
    /\ tasks[j].event = "delete"
    /\ KeyOf(tasks[i].svc) = KeyOf(tasks[j].svc)

\* C5: the reconciliations of an update event and of a later delete event of
\* the same service run with no ordering between them: while neither is over,
\* each of them can take its next step, so the DELETE can be sent before the
\* update's request.  (The witness is the interleaving the claim names.)
C5_NoOrdering ==
    \A i \in 1..Len(tasks) : \A j \in 1..Len(tasks) :
        (UpdateThenDelete(i, j) /\ tasks[i].pc \notin {"done", "blocked"}
                                /\ tasks[j].pc # "done") =>
            /\ ENABLED StepOf(i)
            /\ ENABLED deleteOriginPool(j)

\* the service is gone from the cluster, its delete was the last event and
\* was served, both tasks are over, and the pool the update created is present
C5_Witness ==
    \E i \in 1..Len(tasks) : \E j \in 1..Len(tasks) :
        /\ UpdateThenDelete(i, j)
        /\ j = Len(tasks)
        /\ tasks[i].pc = "done" /\ tasks[j].pc = "done"
        /\ cluster[KeyOf(tasks[j].svc)] = NoService
        /\ tasks[j].calls[1].status \in {StatusOK, StatusNotFound}
        /\ \E k \in Submitted(i) : tasks[i].calls[k].status = StatusOK
        /\ Present(remote, CanonicalName(j))

----------------------------------------------------------------------------
(* C6, C7, C8: the canonical name *)

IsLowerAZ(c) == c \in 97..122

\* empty, or ^[a-z]([a-z0-9-]*[a-z0-9])?$
WellFormedName(s) ==
    /\ \A k \in 1..Len(s) : IsLowerAZ(s[k]) \/ IsDigit(s[k]) \/ s[k] = Hyphen
    /\ Len(s) > 0 => IsLowerAZ(s[1])
    /\ Len(s) > 0 => s[Len(s)] # Hyphen

\* C6: for every input string the output of formatServiceName contains only
\* characters of [a-z0-9-], is empty or starts with a letter a-z, and does not
\* end with a hyphen.
C6_OutputWellFormed == applied => WellFormedName(nameOut)

\* C7: formatServiceName is idempotent: canonicalizing its output again gives
\* the output back.
C7_Idempotent == applied => formatServiceName(nameOut) = nameOut

\* the algorithm as the specification words it, one step on the result of the
\* step before
RECURSIVE DropUntilLetter(_)
DropUntilLetter(s) ==
    IF s # <<>> /\ ~IsLetter(Head(s)) THEN DropUntilLetter(Tail(s)) ELSE s

KeepNameChars(s) ==
    LET Keep(c) == IsLetter(c) \/ IsDigit(c) \/ c = Hyphen
    IN SelectSeq(s, Keep)

DropFinalHyphen(s) ==
    IF s # <<>> /\ s[Len(s)] = Hyphen THEN SubSeq(s, 1, Len(s) - 1) ELSE s

WordedAlgorithm(s) ==
    DropFinalHyphen(KeepNameChars(DropUntilLetter(
        [k \in 1..Len(s) |-> ToLowerRune(IF s[k] = 46 THEN 45 ELSE s[k])])))

\* "My.Service.Name." and "my-service-name"
MyServiceNameDot ==
    <<77, 121, 46, 83, 101, 114, 118, 105, 99, 101, 46, 78, 97, 109, 101, 46>>
MyServiceName ==
    <<109, 121, 45, 115, 101, 114, 118, 105, 99, 101, 45, 110, 97, 109, 101>>

\* the two examples of the specification: "123-abc" gives "abc"
C8_Examples ==
    /\ formatServiceName(MyServiceNameDot) = MyServiceName
    /\ formatServiceName(<<49, 50, 51, 45, 97, 98, 99>>) = <<97, 98, 99>>

\* C8: formatServiceName computes the worded algorithm (dots to hyphens,
\* lowercase, leading characters stripped up to the first letter, every
\* character that is not alphanumeric or hyphen dropped, a final hyphen
\* dropped) on every input, and maps the two examples as stated.
C8_ComputesWordedAlgorithm ==
    /\ applied => nameOut = WordedAlgorithm(nameIn)
    /\ C8_Examples

----------------------------------------------------------------------------
(* C9: one name in all four operations *)

\* C9: every request a reconciliation sends or has prepared names the remote
\* resource by formatServiceName(service.Name): the existence check, the
\* update and the delete in their URL, the create, the update and the delete
\* in their payload.
NamedCanonically(r, name) ==
    CASE r.method = "GET"    -> r.url = ItemURL(name)
      [] r.method = "POST"   -> r.url = CollectionURL /\ r.body.Name = name
      [] r.method = "PUT"    -> r.url = ItemURL(name) /\ r.body.Name = name
      [] r.method = "DELETE" -> r.url = ItemURL(name) /\ r.body.Name = name
      [] OTHER               -> TRUE

C9_OneCanonicalName ==
    \A i \in 1..Len(tasks) :
        /\ NamedCanonically(tasks[i].req, CanonicalName(i))
        /\ \A k \in 1..Len(tasks[i].calls) :
              NamedCanonically(tasks[i].calls[k], CanonicalName(i))

----------------------------------------------------------------------------
(* C10: one address per node *)

\* the addresses of node n
AddressesOf(n) == {NodeAddresses(n)[j].Address : j \in 1..Len(NodeAddresses(n))}

NodesOf(pods) == {pods[k] : k \in 1..Len(pods)}

\* C10: the result of a resolution holds at most one address per distinct
\* node of the pod list, however many matching pods the node hosts; when every
\* lookup succeeds and every node has an internal address it holds exactly
\* one per distinct node (pods on n1, n1, n2 give 2 addresses).
C10_OneAddressPerNode ==
    applied =>
        /\ \A n \in Nodes :
              Cardinality({k \in 1..Len(ipsOut) : ipsOut[k] \in AddressesOf(n)}) <= 1
        /\ \A k \in 1..Len(ipsOut) : \E n \in NodesOf(podsIn) : ipsOut[k] \in AddressesOf(n)
        /\ Len(ipsOut) <= Cardinality(NodesOf(podsIn))
        /\ (~listErrIn /\ failIn = {} /\ \A n \in NodesOf(podsIn) : FirstInternal(NodeAddresses(n)) # 0)
              => Len(ipsOut) = Cardinality(NodesOf(podsIn))

\* two pods on n1 and one on n2, every lookup succeeding: 2 addresses
C10_Witness ==
    /\ applied
    /\ ~listErrIn
    /\ podsIn = <<"n1", "n1", "n2">>
    /\ failIn = {}
    /\ Len(ipsOut) = 2

----------------------------------------------------------------------------
(* C11: a failed node lookup *)

\* the first internal address of node n
InternalOf(n) == NodeAddresses(n)[FirstInternal(NodeAddresses(n))].Address

\* the nodes that host a pod of the list whose node lookup does not fail
LookedUp == {podsIn[k] : k \in (1..Len(podsIn)) \ failIn}

\* C11: a failed node lookup for one pod does not abort the resolution: the
\* resolver returns an error exactly when the pod listing fails, and otherwise
\* returns the internal address of every node that hosts a pod whose lookup
\* does not fail, and no address of a node whose lookups all fail.
C11_LookupFailureSkipsPod ==
    applied =>
        /\ errOut <=> listErrIn
        /\ ~listErrIn =>
              /\ \A n \in LookedUp :
                    FirstInternal(NodeAddresses(n)) # 0 =>
                        \E k \in 1..Len(ipsOut) : ipsOut[k] = InternalOf(n)
              /\ \A k \in 1..Len(ipsOut) :
                    \E n \in LookedUp : ipsOut[k] \in AddressesOf(n)

\* pods on n1 and n2, the lookup of n2 fails: exactly the address of n1, no error
C11_Witness ==
    /\ applied
    /\ ~listErrIn
    /\ podsIn = <<"n1", "n2">>
    /\ failIn = {2}
    /\ ipsOut = <<"10.0.0.1">>
    /\ ~errOut
----------------------------------------------------------------------------
(* C12: the delete event of a service that qualified *)

\* the step is the delete event of the service key
DeleteEvent(key) == cluster[key] # NoService /\ cluster'[key] = NoService

\* the step starts the delete path for the service key
StartsDelete(key) ==
    /\ Len(tasks') = Len(tasks) + 1
    /\ tasks'[Len(tasks')].event = "delete"
    /\ KeyOf(tasks'[Len(tasks')].svc) = key

\* C12: the delete event of a service that passed the filter at an earlier
\* add or update event always starts the delete path, also when the service's
\* type was changed away from NodePort before it was deleted.
C12_DeleteAlwaysRuns ==
    [][\A key \in ServiceKeys :
          (DeleteEvent(key) /\ key \in qualified) => StartsDelete(key)]_vars
----------------------------------------------------------------------------
(* C13: the filter of the handlers *)

\* the step is an event that carries a service of another type than NodePort:
\* an add or update event with such an object, or the delete event of one
OtherKindEvent ==
    \E key \in ServiceKeys :
        \/ /\ cluster'[key] # cluster[key]
           /\ cluster'[key] # NoService
           /\ cluster'[key].Type # "NodePort"
        \/ /\ cluster[key] # NoService
           /\ cluster'[key] = NoService
           /\ cluster[key].Type # "NodePort"

\* C13: only NodePort services trigger reconciliation: an add, update or
\* delete event that carries a service of another type starts no goroutine,
\* so it issues no remote call and no cluster query, and it leaves the remote
\* store as it is; every goroutine there is was started for a NodePort service.
C13_OnlyNodePortReconciles ==
    /\ [](\A i \in 1..Len(tasks) : tasks[i].svc.Type = "NodePort")
    /\ [][OtherKindEvent => UNCHANGED <<tasks, remote>>]_vars

\* default/web qualified and was reconciled, then was changed to ClusterIP
\* and is still one: no goroutine but the first was started
C13_Witness ==
    /\ cluster[KeyOf(Svc("default", Web, "ClusterIP", <<0>>))].Type = "ClusterIP"
    /\ Len(tasks) = 1
    /\ tasks[1].event = "add"
    /\ KeyOf(tasks[1].svc) = KeyOf(Svc("default", Web, "ClusterIP", <<0>>))
    /\ tasks[1].pc = "done"
----------------------------------------------------------------------------
(* C14: a failed resolution *)

\* the resolution of reconciliation i failed: the pod listing returned an error
ResolutionFailed(i) == tasks[i].resolved.called /\ tasks[i].resolved.err

\* C14: when the resolution fails, the create/update path is over at once: no
\* create and no update request is built or sent for that event, and the
\* existence check stays the only call of the reconciliation.
C14_FailedResolutionSendsNothing ==
    \A i \in ManageTasks :
        ResolutionFailed(i) =>
            /\ tasks[i].pc = "done"
            /\ tasks[i].req = NoReq
            /\ Submitted(i) = {}
            /\ Len(tasks[i].calls) = 1

\* the resolution failed on the create path of one reconciliation and on the
\* update path of another, both for a service with a node port
C14_Witness ==
    /\ \E i \in ManageTasks :
          /\ ResolutionFailed(i)
          /\ tasks[i].exists = "notfound"
          /\ HasNodePort(tasks[i].svc)
    /\ \E i \in ManageTasks :
          /\ ResolutionFailed(i)
          /\ tasks[i].exists = "found"
          /\ HasNodePort(tasks[i].svc)
----------------------------------------------------------------------------
(* C15: no retry *)

\* the create, update and delete calls task i has made
Mutating(i) ==
    {k \in 1..Len(tasks[i].calls) : tasks[i].calls[k].method \in {"POST", "PUT", "DELETE"}}

\* any step of task i
AnyStepOf(i) == StepOf(i) \/ deleteOriginPool(i)

\* C15: no retry is scheduled: the goroutine of one event makes at most one
\* existence check and at most one mutating call (a create, an update or a
\* delete), whether the calls succeed or fail; once the mutating call is made
\* or the existence check has failed the goroutine makes no further call, and
\* a goroutine that is over takes no further step.
C15_NoRetry ==
    \A i \in 1..Len(tasks) :
        LET t == tasks[i]
        IN /\ Cardinality(CallsBy(i, "GET")) <= 1
           /\ Cardinality(Mutating(i)) <= 1
           /\ Len(t.calls) = Cardinality(CallsBy(i, "GET")) + Cardinality(Mutating(i))
           /\ Mutating(i) # {} => t.pc \in {"done", "blocked"}
           /\ (\E k \in CallsBy(i, "GET") :
                  t.calls[k].status \notin {StatusOK, StatusNotFound}) => t.pc = "done"
           /\ t.pc \in {"done", "blocked"} => ~ENABLED AnyStepOf(i)

\* a create that the API failed and a delete that the transport failed, each
\* the last call of its goroutine
C15_Witness ==
    /\ \E i \in ManageTasks :
          /\ tasks[i].pc = "done"
          /\ Len(tasks[i].calls) = 2
          /\ tasks[i].calls[2].method = "POST"
          /\ tasks[i].calls[2].status = StatusServerError
    /\ \E j \in DeleteTasks :
          /\ tasks[j].pc = "done"
          /\ tasks[j].calls[1].status = TransportError
----------------------------------------------------------------------------
(* C16: the timeouts of the remote calls *)

\* C16: each of the four remote calls is bounded by a timeout, so that every
\* goroutine terminates even when the remote API never answers: a goroutine
\* is over or can take its next step, none waits for good.
C16_EveryCallBounded ==
    \A i \in 1..Len(tasks) : tasks[i].pc = "done" \/ ENABLED AnyStepOf(i)

----------------------------------------------------------------------------
(* C17: a stuck goroutine *)

\* C17: a goroutine stuck in a call blocks only itself.  The handlers do not
\* wait for the goroutines: whatever the goroutines are doing, the add or
\* update event of every service and the delete event of every service of the
\* cluster can be dispatched (while the model starts goroutines at all), and
\* beside a goroutine that waits for good every goroutine that is neither over
\* nor stuck itself can take its next step.
C17_StuckTaskBlocksOnlyItself ==
    /\ (phase = "watching" /\ Len(tasks) < MaxTasks) =>
          /\ \A svc \in Services :
                IF cluster[KeyOf(svc)] = NoService
                THEN ENABLED AddFunc(svc)
                ELSE ENABLED UpdateFunc(svc)
          /\ \A key \in ServiceKeys :
                cluster[key] # NoService => ENABLED DeleteFunc(key)
    /\ \A i \in 1..Len(tasks) : \A j \in 1..Len(tasks) :
          (tasks[i].pc = "blocked" /\ tasks[j].pc \notin {"done", "blocked"}) =>
              ENABLED AnyStepOf(j)

\* the first goroutine waits for an answer that never comes; the event of the
\* same service delivered after it was dispatched and its reconciliation is
\* over, its request served
C17_Witness ==
    /\ Len(tasks) = 2
    /\ tasks[1].pc = "blocked"
    /\ KeyOf(tasks[2].svc) = KeyOf(tasks[1].svc)
    /\ tasks[2].pc = "done"
    /\ \E k \in Mutating(2) : tasks[2].calls[k].status = StatusOK
----------------------------------------------------------------------------
(* C18: the network side of the backend entries *)

\* the create and update requests of task i: those sent and the one built
PayloadsOf(i) ==
    {tasks[i].calls[k].body : k \in Submitted(i)} \cup
    (IF tasks[i].req.method \in {"POST", "PUT"} THEN {tasks[i].req.body} ELSE {})

\* the entry is tagged with the side the configuration names, and only with it
TaggedAs(entry, siteinterface) ==
    /\ siteinterface = "Inside"  => (entry.InsideNetwork /\ ~entry.OutsideNetwork)
    /\ siteinterface = "Outside" => (entry.OutsideNetwork /\ ~entry.InsideNetwork)

\* C18: every backend entry of a create or update payload is tagged with the
\* network side XC_SITEINTERFACE names: inside when it is "Inside", outside
\* when it is "Outside", never the other side.
C18_TaggedAsConfigured ==
    \A i \in ManageTasks : \A body \in PayloadsOf(i) :
        \A k \in 1..Len(body.OriginServers) :
            TaggedAs(body.OriginServers[k], xc_siteinterface)

----------------------------------------------------------------------------
(* C19: the listening port *)

\* C19: every create or update request, sent or built, carries as its port
\* the node port of the first port entry of the service, which is not zero.
C19_PortIsNodePort ==
    \A i \in ManageTasks : \A body \in PayloadsOf(i) :
        /\ tasks[i].svc.Ports # <<>>
        /\ body.Port = Head(tasks[i].svc.Ports)
        /\ body.Port # 0

----------------------------------------------------------------------------
(* C20: startup *)

\* the configuration values the specification requires
Required == CheckedByMain \cup {"xc_siteinterface"}

\* C20: with any of the five required values absent startup is refused: the
\* process never watches, so no event is handled and no goroutine starts.
C20_StartupRefused ==
    (\E v \in Required : env[v] = "") =>
        /\ phase # "watching"
        /\ tasks = <<>>
        /\ cluster = [k \in ServiceKeys |-> NoService]
----------------------------------------------------------------------------
(* C26: the address a node contributes *)

\* a is the first address of node n that is tagged internal
IsFirstInternalOf(a, n) ==
    \E j \in 1..Len(NodeAddresses(n)) :
        /\ NodeAddresses(n)[j].Type = "InternalIP"
        /\ NodeAddresses(n)[j].Address = a
        /\ \A h \in 1..(j - 1) : NodeAddresses(n)[h].Type # "InternalIP"

\* node n has an address tagged internal
HasInternal(n) ==
    \E j \in 1..Len(NodeAddresses(n)) : NodeAddresses(n)[j].Type = "InternalIP"

\* C26: for each backing node the resolver contributes the first address of
\* the node's list that is tagged internal, and nothing else: every address
\* returned is the first internal address of a node of the pod list, a node
\* whose lookup does not fail and that has an internal address contributes
\* it exactly once, and a node without internal address contributes nothing,
\* however many pods run on it.
C26_FirstInternalOnly ==
    (applied /\ ~listErrIn) =>
        /\ \A k \in 1..Len(ipsOut) :
              \E n \in NodesOf(podsIn) : IsFirstInternalOf(ipsOut[k], n)
        /\ \A n \in LookedUp :
              HasInternal(n) =>
                  Cardinality({k \in 1..Len(ipsOut) : IsFirstInternalOf(ipsOut[k], n)}) = 1
        /\ \A n \in NodesOf(podsIn) :
              ~HasInternal(n) =>
                  \A k \in 1..Len(ipsOut) : ipsOut[k] \notin AddressesOf(n)

\* a pod on n2, which has two internal addresses after an external one, and
\* two pods on n3, which has none: the first internal address of n2 alone
C26_Witness ==
    /\ applied
    /\ ~listErrIn
    /\ podsIn = <<"n2", "n3", "n3">>
    /\ failIn = {}
    /\ ipsOut = <<"10.0.0.2">>
----------------------------------------------------------------------------
(* C21: a failure ends one attempt only *)

\* the existence check of task i returned an error
CheckFailed(i) == tasks[i].pc = "done" /\ tasks[i].exists = "error"

\* task i stopped before its request: the resolution failed, it found no
\* endpoint, or the service has no node port
Skipped(i) ==
    tasks[i].pc = "done" /\ tasks[i].resolved.called /\ tasks[i].req = NoReq

\* the create, update or delete of task i got an answer that is not 200
\* ("not found" on a delete included), or no answer within the timeout
CallRefused(i) ==
    /\ tasks[i].pc = "done"
    /\ \E k \in Mutating(i) : tasks[i].calls[k].status # StatusOK

Failed(i) == CheckFailed(i) \/ Skipped(i) \/ CallRefused(i)

\* C21: every failure inside a reconciliation ends that attempt only.  After
\* a failed existence check, a failed resolution, a missing node port or a
\* create, update or delete that was not answered with 200, the process is
\* still watching, every event of every service can still be dispatched
\* (while the model starts goroutines at all), and a goroutine started after
\* the failed one can begin its reconciliation.
C21_FailureIsLocal ==
    \A i \in 1..Len(tasks) :
        Failed(i) =>
            /\ phase = "watching"
            /\ Len(tasks) < MaxTasks =>
                  /\ \A svc \in Services :
                        ENABLED (AddFunc(svc) \/ UpdateFunc(svc))
                  /\ \A key \in ServiceKeys :
                        cluster[key] # NoService => ENABLED DeleteFunc(key)
            /\ \A j \in (i + 1)..Len(tasks) :
                  /\ tasks[j].pc = "check" => ENABLED manageOriginPool(j)
                  /\ tasks[j].pc = "delete" => ENABLED deleteOriginPool(j)

\* the create of the first reconciliation was answered with a server error;
\* the reconciliation of the next event of the same service found the pool
\* absent and created it
C21_Witness ==
    /\ Len(tasks) = 2
    /\ tasks[1].pc = "done"
    /\ \E k \in CallsBy(1, "POST") : tasks[1].calls[k].status = StatusServerError
    /\ KeyOf(tasks[2].svc) = KeyOf(tasks[1].svc)
    /\ tasks[2].pc = "done"
    /\ \E k \in CallsBy(2, "POST") : tasks[2].calls[k].status = StatusOK
    /\ Present(remote, CanonicalName(2))
----------------------------------------------------------------------------
(* C23: the existence check and the create *)

\* C23: the existence check and the following create are not atomic.  A
\* reconciliation that has observed the pool as absent sends its create
\* without looking again: whenever it has its create request ready, the
\* request can be sent, also when a pool of that name is present by now.
C23_CheckThenCreateNotAtomic ==
    \A i \in ManageTasks :
        tasks[i].pc = "post" =>
            /\ tasks[i].exists = "notfound"
            /\ \A k \in CallsBy(i, "GET") : tasks[i].calls[k].status = StatusNotFound
            /\ ENABLED createSend(i)

\* two reconciliations of one service both observed the pool as absent and
\* both issued a create for the same canonical name; the first was accepted,
\* the second reached the API while the pool was present
C23_Witness ==
    /\ Len(tasks) = 2
    /\ ManageTasks = {1, 2}
    /\ KeyOf(tasks[1].svc) = KeyOf(tasks[2].svc)
    /\ \A i \in {1, 2} :
          /\ Len(tasks[i].calls) = 2
          /\ tasks[i].calls[1].method = "GET"
          /\ tasks[i].calls[1].status = StatusNotFound
          /\ tasks[i].calls[2].method = "POST"
    /\ tasks[1].calls[2].body.Name = tasks[2].calls[2].body.Name
    /\ \E i \in {1, 2} : tasks[i].calls[2].status = StatusOK
    /\ \E i \in {1, 2} : tasks[i].calls[2].status = StatusConflict
----------------------------------------------------------------------------
(* C24: reconciliations of two services *)

\* the step is a step of the goroutine i
StepOfTask(i) == tasks'[i] # tasks[i]

\* the remote resource that belongs to the service key
PoolOf(store, key) == store[formatServiceName(key.Name)]

\* C24: reconciliations of independent services do not interfere: no step of
\* the goroutine of one service creates, replaces or deletes the remote
\* resource of another service (another namespace or another name) that is in
\* the cluster as a NodePort service.
C24_NoInterference ==
    [][\A i \in 1..Len(tasks) : \A key \in qualified :
          (StepOfTask(i) /\ key # KeyOf(tasks[i].svc)) =>
              PoolOf(remote', key) = PoolOf(remote, key)]_vars
----------------------------------------------------------------------------
(* C25: an update replaces the backend list *)

\* the step is the update of goroutine i, answered with 200
UpdateServed(i) ==
    /\ tasks[i].pc = "put"
    /\ tasks'[i].pc = "done"
    /\ tasks'[i].calls[Len(tasks'[i].calls)].status = StatusOK

\* C25: an update is a full replacement: after a successful update the
\* backend list of the remote pool is exactly the endpoint list resolved in
\* that reconciliation, one entry per resolved address in the order of the
\* resolution, each with the configured site, and no entry of the list the
\* pool had before is kept unless its address was resolved again.
C25_UpdateReplaces ==
    [][\A i \in ManageTasks :
          UpdateServed(i) =>
              LET ips    == tasks[i].resolved.nodeIPs
                  before == remote[CanonicalName(i)].OriginServers
                  after  == remote'[CanonicalName(i)].OriginServers
              IN /\ remote'[CanonicalName(i)].present
                 /\ Len(after) = Len(ips)
                 /\ \A k \in 1..Len(ips) :
                       after[k].IP = ips[k] /\ after[k].Site = env.xc_sitename
                 /\ \A b \in 1..Len(before) :
                       (\A k \in 1..Len(ips) : ips[k] # before[b].IP) =>
                           \A a \in 1..Len(after) : after[a].IP # before[b].IP]_vars

\* the only reconciliation found the pool of an earlier run, whose one
\* backend was 10.0.0.1, resolved 10.0.0.2 and no other address, and its
\* update was served: the pool holds 10.0.0.2 alone
C25_Witness ==
    /\ Len(tasks) = 1
    /\ tasks[1].pc = "done"
    /\ tasks[1].exists = "found"
    /\ tasks[1].resolved.nodeIPs = <<"10.0.0.2">>
    /\ \E k \in CallsBy(1, "PUT") : tasks[1].calls[k].status = StatusOK
    /\ Len(remote[CanonicalName(1)].OriginServers) = 1
    /\ remote[CanonicalName(1)].OriginServers[1].IP = "10.0.0.2"
----------------------------------------------------------------------------
(* The program when the events are reconciled one after another and the
   remote API serves every request *)

\* every goroutine is over
Quiet == \A h \in 1..Len(tasks) : tasks[h].pc = "done"

\* every request sent so far was served by the remote API
Served ==
    \A i \in 1..Len(tasks) : \A k \in 1..Len(tasks[i].calls) :
        tasks[i].calls[k].status \notin {StatusServerError, TransportError, NoAnswer}

\* `go f(...)`
Go_seq(event, svc, pc, req) ==
    /\ Len(tasks) < MaxSeqTasks
    /\ tasks' = Append(tasks, NewTask(event, svc, pc, req))

\* AddFunc for an event that is delivered when every goroutine is over
AddFunc_seq(svc) ==
    /\ phase = "watching"
    /\ Quiet
    /\ cluster[KeyOf(svc)] = NoService
    /\ cluster' = [cluster EXCEPT ![KeyOf(svc)] = svc]
    /\ IF svc.Type = "NodePort"
       THEN Go_seq("add", svc, "check", NoReq) /\ qualified' = qualified \cup {KeyOf(svc)}
       ELSE UNCHANGED <<tasks, qualified>>
    /\ UNCHANGED <<remote, process, harness>>

\* UpdateFunc, likewise
UpdateFunc_seq(svc) ==
    /\ phase = "watching"
    /\ Quiet
    /\ cluster[KeyOf(svc)] # NoService
    /\ cluster' = [cluster EXCEPT ![KeyOf(svc)] = svc]
    /\ IF svc.Type = "NodePort"
       THEN Go_seq("update", svc, "check", NoReq) /\ qualified' = qualified \cup {KeyOf(svc)}
       ELSE UNCHANGED <<tasks, qualified>>
    /\ UNCHANGED <<remote, process, harness>>

\* DeleteFunc, likewise
DeleteFunc_seq(key) ==
    /\ phase = "watching"
    /\ Quiet
    /\ cluster[key] # NoService
    /\ cluster' = [cluster EXCEPT ![key] = NoService]
    /\ qualified' = qualified \ {key}
    /\ IF cluster[key].Type = "NodePort"
       THEN Go_seq("delete", cluster[key], "delete", DeleteRequest(cluster[key]))
       ELSE UNCHANGED tasks
    /\ UNCHANGED <<remote, process, harness>>

\* one complete environment: the code never reads XC_SITEINTERFACE, and main
\* ends the process for an incomplete one
InitSeq == Init /\ env = FullEnv("Inside")

NextSeq ==
    \/ main
    \/ \E svc \in Services : AddFunc_seq(svc)
    \/ \E svc \in Services : UpdateFunc_seq(svc)
    \/ \E key \in ServiceKeys : DeleteFunc_seq(key)
    \/ \E i \in 1..Len(tasks) : manageOriginPool(i) /\ Served'
    \/ \E i \in 1..Len(tasks) : createOriginPool(i)
    \/ \E i \in 1..Len(tasks) : updateOriginPool(i)
    \/ \E i \in 1..Len(tasks) : createSend(i) /\ Served'
    \/ \E i \in 1..Len(tasks) : updateSend(i) /\ Served'
    \/ \E i \in 1..Len(tasks) : deleteOriginPool(i) /\ Served'

SpecSeq == InitSeq /\ [][NextSeq]_vars

----------------------------------------------------------------------------
(* C22: the lifecycle of the remote resource *)

\* C22: when the events are reconciled one after another without overlap and
\* the remote API serves every call, the remote resource follows the
\* lifecycle absent -> created -> updated -> deleted: a create is prepared and
\* issued only while the pool is absent and so is accepted, an update only
\* while the pool is present and so is accepted, and when the reconciliation
\* of a delete event is over the pool is absent.
C22_Lifecycle ==
    \A i \in 1..Len(tasks) :
        /\ tasks[i].pc \in {"create", "post"} => ~Present(remote, CanonicalName(i))
        /\ tasks[i].pc \in {"update", "put"} => Present(remote, CanonicalName(i))
        /\ \A k \in CallsBy(i, "POST") : tasks[i].calls[k].status = StatusOK
        /\ \A k \in CallsBy(i, "PUT") : tasks[i].calls[k].status = StatusOK
        /\ (tasks[i].event = "delete" /\ tasks[i].pc = "done" /\ i = Len(tasks)) =>
              ~Present(remote, CanonicalName(i))

\* the add event of a service found the pool absent and created it, its
\* update event found the pool and updated it, its delete event deleted it,
\* one after another, and the pool is absent at the end
C22_Witness ==
    /\ Len(tasks) = 3
    /\ \A i \in 1..3 : KeyOf(tasks[i].svc) = KeyOf(tasks[1].svc)
    /\ Quiet
    /\ tasks[1].event = "add"
    /\ tasks[1].calls[1].status = StatusNotFound
    /\ \E k \in CallsBy(1, "POST") : tasks[1].calls[k].status = StatusOK
    /\ tasks[2].event = "update"
    /\ tasks[2].calls[1].status = StatusOK
    /\ \E k \in CallsBy(2, "PUT") : tasks[2].calls[k].status = StatusOK
    /\ tasks[3].event = "delete"
    /\ tasks[3].calls[1].status = StatusOK
    /\ ~Present(remote, CanonicalName(3))

====
